---- MODULE Spec2Model ----
(***************************************************************************)
(* Run pipeline and progress-tracking engine of netresearch-backend:       *)
(* the in-memory run registry (StateManager), the trigger and poll         *)
(* endpoints with the simulate_agent_run background task, the sqlite run   *)
(* table, and ResearchAgentOrchestrator.run with its staged pipeline.      *)
(*                                                                         *)
(* Python values are encoded with one TLA+ type per field:                 *)
(*   Optional[T]   a sequence of length <= 1 (<<>> is None, <<v>> is v)    *)
(*   message       <<text, error text>>  (f"{text}{error}")                *)
(*   graph_data    [present, nodes, links]; present = FALSE is None        *)
(***************************************************************************)
EXTENDS Integers, Sequences, FiniteSets, TLC

(***************************************************************************)
(* Bounds of the model.                                                    *)
(***************************************************************************)
MaxSteps == 2
MaxNodesBound == 1

RunIds == {"r1", "r2"}
Queries == {"robotics"}
MaxNodesSet == 0..MaxNodesBound

None == <<>>
Some(v) == <<v>>
Range(s) == {s[i] : i \in 1..Len(s)}

VARIABLES
    run_store,   \* StateManager.run_store: run_id -> run record
    db_run,      \* rows of the sqlite table "run": id -> [query, graph_data]
    task,        \* position of each simulate_agent_run background task
    orch,        \* position and AgentContext of each Orchestrator.run execution
    lastPoll,    \* the latest response of get_agent_status
    lastOp,      \* the latest direct call of a StateManager method
    unit         \* the latest direct call of a utility function

vars == <<run_store, db_run, task, orch, lastPoll, lastOp, unit>>

(***************************************************************************)
(* Values stored in the registry.                                          *)
(***************************************************************************)
NoGraph == [present |-> FALSE, nodes |-> <<>>, links |-> <<>>]
Graph(nodes, links) == [present |-> TRUE, nodes |-> nodes, links |-> links]

Msg(text, err) == <<text, err>>

\* StateManager.add_run_step: the parameter list of the method.
AddRunStepParams ==
    <<"run_id", "step_id", "step_type", "message", "status",
      "details", "filters", "papers", "sources">>

\* Parameters of add_run_step that have no default value.
AddRunStepRequired == 4

\* Python's argument binding for a call of add_run_step with npos positional
\* arguments and the keyword arguments kwnames: the TypeError it raises, or
\* "none" when the call binds.
AddRunStepBindError(npos, kwnames) ==
    IF npos > Len(AddRunStepParams)
    THEN "TypeError: too many positional arguments"
    ELSE IF \E k \in kwnames : k \notin Range(AddRunStepParams)
    THEN "TypeError: unexpected keyword argument"
    ELSE IF \E i \in 1..npos : AddRunStepParams[i] \in kwnames
    THEN "TypeError: multiple values for argument"
    ELSE IF \E i \in 1..AddRunStepRequired :
                i > npos /\ AddRunStepParams[i] \notin kwnames
    THEN "TypeError: missing required positional argument"
    ELSE "none"

\* The optional keyword kw[name] as add_run_step receives it (default None).
KwArg(kw, name) == IF name \in DOMAIN kw THEN kw[name] ELSE None

\* StepLog that drops the status it is given and records the default.
StepLog_default_status(step_id, step_type, message, status, kw) ==
    [step_id   |-> step_id,
     step_type |-> step_type,
     message   |-> message,
     status    |-> "done",
     timestamp |-> "utcnow",
     details   |-> KwArg(kw, "details"),
     filters   |-> KwArg(kw, "filters"),
     papers    |-> KwArg(kw, "papers"),
     sources   |-> KwArg(kw, "sources")]

\* The step_log dict built by add_run_step; a field that was not provided
\* (or was None) is absent.
StepLog(step_id, step_type, message, status, kw) ==
    [step_id   |-> step_id,
     step_type |-> step_type,
     message   |-> message,
     status    |-> status,
     timestamp |-> "utcnow",
     details   |-> KwArg(kw, "details"),
     filters   |-> KwArg(kw, "filters"),
     papers    |-> KwArg(kw, "papers"),
     sources   |-> KwArg(kw, "sources")]

\* create_run that initialises graph_data to an empty graph, not None.
create_run_empty_graph(store, run_id, query, cv_id, max_nodes) ==
    [r \in DOMAIN store \cup {run_id} |->
        IF r = run_id
        THEN [run_id     |-> run_id,
              query      |-> query,
              cv_id      |-> cv_id,
              max_nodes  |-> max_nodes,
              status     |-> "running",
              steps      |-> <<>>,
              graph_data |-> Graph(<<>>, <<>>),
              created_at |-> "utcnow"]
        ELSE store[r]]

\* create_run that keeps an existing record (setdefault).
create_run_keep(store, run_id, query, cv_id, max_nodes) ==
    [r \in DOMAIN store \cup {run_id} |->
        IF r \in DOMAIN store
        THEN store[r]
        ELSE [run_id     |-> run_id,
              query      |-> query,
              cv_id      |-> cv_id,
              max_nodes  |-> max_nodes,
              status     |-> "running",
              steps      |-> <<>>,
              graph_data |-> NoGraph,
              created_at |-> "utcnow"]]

\* create_run that records the status of the trigger's response, 'started'.
create_run_status_started(store, run_id, query, cv_id, max_nodes) ==
    [r \in DOMAIN store \cup {run_id} |->
        IF r = run_id
        THEN [run_id     |-> run_id,
              query      |-> query,
              cv_id      |-> cv_id,
              max_nodes  |-> max_nodes,
              status     |-> "started",
              steps      |-> <<>>,
              graph_data |-> NoGraph,
              created_at |-> "utcnow"]
        ELSE store[r]]

\* StateManager.create_run
create_run(store, run_id, query, cv_id, max_nodes) ==
    [r \in DOMAIN store \cup {run_id} |->
        IF r = run_id
        THEN [run_id     |-> run_id,
              query      |-> query,
              cv_id      |-> cv_id,
              max_nodes  |-> max_nodes,
              status     |-> "running",
              steps      |-> <<>>,
              graph_data |-> NoGraph,
              created_at |-> "utcnow"]
        ELSE store[r]]

\* StateManager.get_run: Optional[run record]
get_run(store, run_id) ==
    IF run_id \in DOMAIN store THEN Some(store[run_id]) ELSE None

\* update_run_status that assigns to a copy of the record: the registry
\* keeps the old status.
update_run_status_lost(store, run_id, status) ==
    IF run_id \in DOMAIN store
    THEN [store EXCEPT ![run_id].status = @]
    ELSE store

\* StateManager.update_run_status
update_run_status(store, run_id, status) ==
    IF run_id \in DOMAIN store
    THEN [store EXCEPT ![run_id].status = status]
    ELSE store

\* add_run_step that creates the record of a run it does not know.
add_run_step_creating(store, run_id, step_id, step_type, message, status, kw) ==
    [r \in DOMAIN store \cup {run_id} |->
        LET old == IF r \in DOMAIN store THEN store[r]
                   ELSE [run_id |-> r, query |-> "", cv_id |-> None,
                         max_nodes |-> 0, status |-> "running",
                         steps |-> <<>>, graph_data |-> NoGraph,
                         created_at |-> "utcnow"]
        IN  IF r = run_id
            THEN [old EXCEPT !.steps =
                      Append(@, StepLog(step_id, step_type, message, status, kw))]
            ELSE old]

\* add_run_step that inserts the new entry at the head of the log.
add_run_step_prepend(store, run_id, step_id, step_type, message, status, kw) ==
    IF run_id \in DOMAIN store
    THEN [store EXCEPT ![run_id].steps =
              <<StepLog(step_id, step_type, message, status, kw)>> \o @]
    ELSE store

\* add_run_step whose records share one steps list: the entry shows up in
\* the log of every run.
add_run_step_shared(store, run_id, step_id, step_type, message, status, kw) ==
    IF run_id \in DOMAIN store
    THEN [r \in DOMAIN store |->
             [store[r] EXCEPT !.steps =
                  Append(@, StepLog(step_id, step_type, message, status, kw))]]
    ELSE store

\* StateManager.add_run_step, for a call that binds.
add_run_step(store, run_id, step_id, step_type, message, status, kw) ==
    IF run_id \in DOMAIN store
    THEN [store EXCEPT ![run_id].steps =
              Append(@, StepLog(step_id, step_type, message, status, kw))]
    ELSE store

\* set_run_graph adding the nodes and links to the graph already stored
\* instead of replacing it.
set_run_graph_accumulate(store, run_id, graph_data) ==
    IF run_id \in DOMAIN store
    THEN [store EXCEPT ![run_id].graph_data =
             Graph(@.nodes \o graph_data.nodes, @.links \o graph_data.links)]
    ELSE store

\* StateManager.set_run_graph
set_run_graph(store, run_id, graph_data) ==
    IF run_id \in DOMAIN store
    THEN [store EXCEPT ![run_id].graph_data = graph_data]
    ELSE store

\* routers/agent.py get_agent_status: 404 for an unknown run, else the
\* AgentStatusResponse built from the record.
get_agent_status(store, run_id) ==
    LET run_data == get_run(store, run_id) IN
    IF run_data = None
    THEN [code |-> 404, run_id |-> run_id, status |-> "",
          steps |-> <<>>, graph_data |-> NoGraph]
    ELSE [code       |-> 200,
          run_id     |-> run_data[1].run_id,
          status     |-> run_data[1].status,
          steps      |-> run_data[1].steps,
          graph_data |-> run_data[1].graph_data]

(***************************************************************************)
(* sqlite table "run" (database/database.py).                              *)
(***************************************************************************)
\* Database.create_run: INSERT INTO run; id is the PRIMARY KEY, so a second
\* row for the same id raises, and any sqlite failure (dbOK = FALSE) raises.
db_create_run(db, run_id, query, graph_data, dbOK) ==
    IF dbOK /\ run_id \notin DOMAIN db
    THEN [db     |-> [r \in DOMAIN db \cup {run_id} |->
                         IF r = run_id
                         THEN [query |-> query, graph_data |-> graph_data]
                         ELSE db[r]],
          raised |-> "none"]
    ELSE [db |-> db, raised |-> "sqlite3.Error"]

(***************************************************************************)
(* Data the collaborators can return.                                      *)
(***************************************************************************)
\* ExtractedFilters values the intent agent can return.
FilterSet ==
    {[topics |-> <<>>, geographical_areas |-> <<>>, institutions |-> <<>>],
     [topics |-> <<"robotics">>, geographical_areas |-> <<"CH">>,
      institutions |-> <<>>]}

\* Raw catalog works: a title and the author ids of its authorships.
Work1 == [title |-> "w1", authorships |-> <<"A1", "A2", "A3">>]
Work2 == [title |-> "w2", authorships |-> <<"A2", "A1">>]
WorkLists == {<<>>, <<Work1>>, <<Work1, Work2>>}

AuthorIds == {"A1", "A2", "A3"}

\* The professor GraphNode mapped from the catalog profile of an author.
AuthorNode(id) ==
    CASE id = "A1" -> [id |-> "A1", institution |-> Some("I1"), h_index |-> Some(3)]
      [] id = "A2" -> [id |-> "A2", institution |-> Some("I1"), h_index |-> None]
      [] OTHER     -> [id |-> id, institution |-> None, h_index |-> Some(0)]

Min(a, b) == IF a < b THEN a ELSE b
Max(a, b) == IF a > b THEN a ELSE b

\* Python's s[:n]
PySliceTo(s, n) ==
    IF n >= 0 THEN SubSeq(s, 1, Min(n, Len(s)))
    ELSE SubSeq(s, 1, Max(Len(s) + n, 0))

RECURSIVE Flatten(_)
Flatten(ss) == IF ss = <<>> THEN <<>> ELSE Head(ss) \o Flatten(Tail(ss))

\* The sequence itself: no element is dropped.
FirstOccurrences_all(s) == s

\* The elements of s in order of first occurrence.
FirstOccurrences(s) ==
    LET keep == SelectSeq([i \in 1..Len(s) |-> i],
                          LAMBDA i : \A j \in 1..(i - 1) : s[j] # s[i])
    IN  [k \in 1..Len(keep) |-> s[keep[k]]]

\* paper_mapper.get_preview_papers: the first `limit` works as Paper objects.
get_preview_papers(works, limit) ==
    LET preview_works == PySliceTo(works, limit) IN
    [i \in 1..Len(preview_works) |->
        [title |-> preview_works[i].title,
         abstract |-> "[Abstract to be populated]"]]

\* professor_mapper.extract_author_ids_from_papers
extract_author_ids_from_papers(papers, max_papers, authors_per_paper) ==
    LET scanned == PySliceTo(papers, max_papers)
        ids == Flatten([i \in 1..Len(scanned) |->
                          PySliceTo(scanned[i].authorships, authors_per_paper)])
    IN  FirstOccurrences(ids)

\* ExtractionAgent.extract_professors: the professor nodes, one per author id
\* whose get_author lookup succeeded (found), in order.
extract_professors(papers_data, max_nodes, found) ==
    IF papers_data = None \/ papers_data[1] = <<>>
    THEN <<>>
    ELSE LET author_ids == extract_author_ids_from_papers(papers_data[1], max_nodes, 2)
             fetched == SelectSeq(author_ids, LAMBDA a : a \in found)
         IN  [i \in 1..Len(fetched) |-> AuthorNode(fetched[i])]

\* The BasicProfessor summaries published with the extraction step.
BasicProfessors(nodes) ==
    [i \in 1..Len(nodes) |-> [name |-> nodes[i].id, institution |-> nodes[i].institution]]

(***************************************************************************)
(* utils/openalex_client.py: OpenAlexClient.  A response is what           *)
(* session.get and raise_for_status do (exc: the exception raised, "none"  *)
(* if the request succeeded) and the decoded body (results, meta).         *)
(***************************************************************************)
MaxTopics == 2

\* Exceptions of session.get (connection, timeout) and of raise_for_status
\* (a 4xx or 5xx status, 404 for an unknown id).
TransportErrors == {"HTTPError", "ConnectionError", "Timeout"}

\* The classes `except requests.RequestException` catches.
RequestExceptions == {"HTTPError", "ConnectionError", "Timeout"}

\* An except clause that names requests.HTTPError only.
Caught_http_only(e) == e = "HTTPError"

\* except requests.RequestException as e
Caught(e) == e \in RequestExceptions

Returned(value, results, meta) ==
    [raised |-> "none", value |-> value, results |-> results, meta |-> meta]

Propagated(e) ==
    [raised |-> e, value |-> None, results |-> <<>>, meta |-> <<>>]

Responses(bodies) ==
    {[exc |-> "none", results |-> b, meta |-> <<"count">>] : b \in bodies}
    \cup {[exc |-> e, results |-> <<>>, meta |-> <<>>] : e \in TransportErrors}

ConceptResponses == Responses({<<>>, <<"C1">>})
WorksResponses == Responses({<<>>, <<"w1", "w2">>})
AuthorResponses == Responses({<<"A1">>})

\* OpenAlexClient.search_concepts: the id of the first result, or None.
search_concepts(topic, resp) ==
    IF resp.exc # "none"
    THEN IF Caught(resp.exc) THEN Returned(None, <<>>, <<>>)
         ELSE Propagated(resp.exc)
    ELSE IF resp.results # <<>>
    THEN Returned(Some(resp.results[1]), <<>>, <<>>)
    ELSE Returned(None, <<>>, <<>>)

\* OpenAlexClient.get_concept_ids_from_topics: resps[i] answers topics[i].
get_concept_ids_from_topics(topics, resps) ==
    LET calls == [i \in 1..Len(topics) |-> search_concepts(topics[i], resps[i])]
        failed == {i \in 1..Len(calls) : calls[i].raised # "none"}
        found == SelectSeq(calls, LAMBDA c : c.value # None)
    IN  IF failed # {}
        THEN Propagated(calls[CHOOSE i \in failed : \A j \in failed : i <= j].raised)
        ELSE Returned(None, [i \in 1..Len(found) |-> found[i].value[1]], <<>>)

\* OpenAlexClient.search_works_by_concepts: the decoded response, or
\* {"results": [], "meta": {}}.
search_works_by_concepts(concept_ids, resp) ==
    IF resp.exc # "none"
    THEN IF Caught(resp.exc) THEN Returned(None, <<>>, <<>>)
         ELSE Propagated(resp.exc)
    ELSE Returned(None, resp.results, resp.meta)

\* search_papers_by_topics without the `if not concept_ids` return: the
\* works query is issued with no concept filter.
search_papers_by_topics_always_query(topics, cresps, wresp) ==
    LET concept_ids == get_concept_ids_from_topics(topics, cresps) IN
    IF concept_ids.raised # "none" THEN concept_ids
    ELSE search_works_by_concepts(concept_ids.results, wresp)

\* OpenAlexClient.search_papers_by_topics
search_papers_by_topics(topics, cresps, wresp) ==
    LET concept_ids == get_concept_ids_from_topics(topics, cresps) IN
    IF concept_ids.raised # "none" THEN concept_ids
    ELSE IF concept_ids.results = <<>> THEN Returned(None, <<>>, <<>>)
    ELSE search_works_by_concepts(concept_ids.results, wresp)

\* OpenAlexClient.get_author: the decoded profile, or None.
get_author(author_id, resp) ==
    IF resp.exc # "none"
    THEN IF Caught(resp.exc) THEN Returned(None, <<>>, <<>>)
         ELSE Propagated(resp.exc)
    ELSE Returned(Some(resp.results[1]), <<>>, <<>>)

\* OpenAlexClient.get_author_works: the decoded response, or
\* {"results": [], "meta": {}}.
get_author_works(author_id, resp) ==
    IF resp.exc # "none"
    THEN IF Caught(resp.exc) THEN Returned(None, <<>>, <<>>)
         ELSE Propagated(resp.exc)
    ELSE Returned(None, resp.results, resp.meta)

(***************************************************************************)
(* utils/graph_builder.py                                                  *)
(***************************************************************************)
UserNodeId == "user-node"

GraphLink(source, target, label) ==
    [source |-> source, target |-> target, label |-> label]

\* create_user_node giving the viewer an id other than the one the
\* 'interested_in' links start from.
create_user_node_other_id ==
    [id |-> "user", institution |-> None, h_index |-> None]

\* graph_builder.create_user_node
create_user_node ==
    [id |-> UserNodeId, institution |-> None, h_index |-> None]

\* The key written as `p.h_index or 0`: an absent h-index counts as 0.
HKey_absent_zero(p) == IF p.h_index = None THEN 0 ELSE p.h_index[1]

\* The key of max() in build_graph_links: the h-index, or -1 when absent.
HKey(p) == IF p.h_index = None THEN -1 ELSE p.h_index[1]

\* Python's max(profs, key=HKey): the first element with the largest key.
Boss(profs) ==
    LET best == CHOOSE i \in 1..Len(profs) :
                    /\ \A j \in 1..Len(profs) : HKey(profs[j]) <= HKey(profs[i])
                    /\ \A j \in 1..(i - 1) : HKey(profs[j]) < HKey(profs[i])
    IN  profs[best]

\* build_graph_links without the `prof.id != boss.id` test: the boss is
\* linked to every member of its group, itself included.
build_graph_links_self_link(professor_nodes) ==
    LET grouped == SelectSeq(professor_nodes, LAMBDA p : p.institution # None)
        inst_ids == FirstOccurrences([i \in 1..Len(grouped) |-> grouped[i].institution[1]])
        Group(inst) == SelectSeq(grouped, LAMBDA p : p.institution[1] = inst)
        bosses == [k \in 1..Len(inst_ids) |-> Boss(Group(inst_ids[k]))]
        Supervised(k) ==
            LET others == Group(inst_ids[k])
            IN  [i \in 1..Len(others) |-> GraphLink(bosses[k].id, others[i].id, "supervises")]
    IN  Flatten([k \in 1..Len(inst_ids) |-> Supervised(k)])
        \o [k \in 1..Len(bosses) |-> GraphLink(UserNodeId, bosses[k].id, "interested_in")]

\* build_graph_links without the `if prof.institution and ...` test: the
\* professors without institution form a group of their own.
build_graph_links_ungrouped(professor_nodes) ==
    LET InstKey(p) == IF p.institution = None THEN "" ELSE p.institution[1]
        grouped == professor_nodes
        inst_ids == FirstOccurrences([i \in 1..Len(grouped) |-> InstKey(grouped[i])])
        Group(inst) == SelectSeq(grouped, LAMBDA p : InstKey(p) = inst)
        bosses == [k \in 1..Len(inst_ids) |-> Boss(Group(inst_ids[k]))]
        Supervised(k) ==
            LET others == SelectSeq(Group(inst_ids[k]), LAMBDA p : p.id # bosses[k].id)
            IN  [i \in 1..Len(others) |-> GraphLink(bosses[k].id, others[i].id, "supervises")]
    IN  Flatten([k \in 1..Len(inst_ids) |-> Supervised(k)])
        \o [k \in 1..Len(bosses) |-> GraphLink(UserNodeId, bosses[k].id, "interested_in")]

\* graph_builder.build_graph_links
build_graph_links(professor_nodes) ==
    LET grouped == SelectSeq(professor_nodes, LAMBDA p : p.institution # None)
        inst_ids == FirstOccurrences([i \in 1..Len(grouped) |-> grouped[i].institution[1]])
        Group(inst) == SelectSeq(grouped, LAMBDA p : p.institution[1] = inst)
        bosses == [k \in 1..Len(inst_ids) |-> Boss(Group(inst_ids[k]))]
        Supervised(k) ==
            LET others == SelectSeq(Group(inst_ids[k]), LAMBDA p : p.id # bosses[k].id)
            IN  [i \in 1..Len(others) |-> GraphLink(bosses[k].id, others[i].id, "supervises")]
    IN  Flatten([k \in 1..Len(inst_ids) |-> Supervised(k)])
        \o [k \in 1..Len(bosses) |-> GraphLink(UserNodeId, bosses[k].id, "interested_in")]

(***************************************************************************)
(* agents/orchestrator.py: ResearchAgentOrchestrator                       *)
(*                                                                         *)
(* An execution of run(context) is the record c: its position pc, its      *)
(* AgentContext fields, and a history of what it did (err, raisedAt,       *)
(* raisedPc, statusSets, dbCalls, saveOutcome, created).  Every registry   *)
(* write and                                                               *)
(* every collaborator call is one step, so that pollers and other runs     *)
(* interleave between them.                                                *)
(***************************************************************************)
NoKw == [k \in {} |-> None]

IdleRun ==
    [pc |-> "idle", tail |-> <<>>, handler |-> FALSE,
     query |-> "", max_nodes |-> 0,
     filters |-> None, papers_data |-> None,
     professor_nodes |-> None, links |-> None,
     err |-> "none", raisedAt |-> "none", raisedPc |-> "none",
     statusSets |-> 0, dbCalls |-> 0, saveOutcome |-> "none",
     created |-> FALSE]

\* A keyword call state_manager.add_run_step(run_id=..., ..., **kw): the
\* registry after it and the TypeError it raised ("none" if it bound).
CallAddRunStep(store, run_id, step_id, step_type, message, status, kw) ==
    LET e == AddRunStepBindError(0,
                 {"run_id", "step_id", "step_type", "message", "status"}
                     \cup DOMAIN kw)
    IN  [store  |-> IF e = "none"
                    THEN add_run_step(store, run_id, step_id, step_type,
                                      message, status, kw)
                    ELSE store,
         raised |-> e]

\* run(): what follows the graph stage inside the try block (lines 63-67).
RunSuccessTail == <<"mark_completed", "save">>

\* The except path of run() marking the run completed before it logs the
\* error.
RunExceptSteps_status_first == <<"mark_completed", "log_error", "save">>

\* The except clause without its update_run_status call.
RunExceptSteps_no_status == <<"log_error", "save">>

\* run(): the except clause (lines 69-75).
RunExceptSteps == <<"log_error", "mark_completed", "save">>

\* An exception e of stage `stage` reaches the except clause of run().
Raised(c, e, stage) ==
    [c EXCEPT !.pc = "tail", !.tail = RunExceptSteps, !.handler = TRUE,
              !.err = e, !.raisedAt = stage, !.raisedPc = c.pc]

\* A stage handler that logs the failure and does not re-raise: the run
\* goes on with the next stage.
StageFail_swallowed(store, c, run_id, step_id, step_type, failtext, e, stage) ==
    [store |-> add_run_step(store, run_id, step_id, step_type,
                            Msg(failtext, e), "done", NoKw),
     c     |-> [c EXCEPT !.pc = CASE stage = "filters" -> "search"
                                  [] stage = "search" -> "extraction"
                                  [] stage = "extraction" -> "relationships"
                                  [] stage = "relationships" -> "graph"
                                  [] OTHER -> "graph_done",
                         !.err = e, !.raisedAt = stage, !.raisedPc = c.pc]]

\* The except clause of a stage method: publish the failure step, re-raise.
StageFail(store, c, run_id, step_id, step_type, failtext, e, stage) ==
    [store |-> add_run_step(store, run_id, step_id, step_type,
                            Msg(failtext, e), "done", NoKw),
     c     |-> Raised(c, e, stage)]

\* One add_run_step call of a stage method, inside (inTry) or outside its
\* try block; nextc is the execution after the call when it does not raise.
Publish(store, c, run_id, step_id, step_type, text, status, kw, inTry, failtext, stage, nextc) ==
    LET call == CallAddRunStep(store, run_id, step_id, step_type,
                               Msg(text, ""), status, kw)
    IN  IF call.raised = "none"
        THEN [store |-> call.store, c |-> nextc]
        ELSE IF inTry
        THEN StageFail(store, c, run_id, step_id, step_type, failtext,
                       call.raised, stage)
        ELSE [store |-> store, c |-> Raised(c, call.raised, stage)]

\* _execute_intent_extraction; intent is what the intent agent does.
execute_intent_extraction(store, c, run_id, intent) ==
    LET text == "Understanding your research interests..."
        fail == "Failed to extract filters: "
    IN
    IF c.pc = "filters"
    THEN IF intent.ok
         THEN Publish(store, c, run_id, "filters-1", "filters", text,
                      "in_progress", [filters |-> Some(intent.filters)],
                      TRUE, fail, "filters",
                      [c EXCEPT !.filters = Some(intent.filters),
                                !.pc = "filters_sleep"])
         ELSE StageFail(store, c, run_id, "filters-1", "filters", fail,
                        intent.err, "filters")
    ELSE Publish(store, c, run_id, "filters-1", "filters", text,
                 "done", [filters |-> c.filters],
                 TRUE, fail, "filters", [c EXCEPT !.pc = "search"])

\* SearchAgent.search_papers: no catalog call without topics; the catalog
\* returns at most per_page = 2 * max_nodes works.
search_papers(c, works) ==
    IF c.filters = None \/ c.filters[1].topics = <<>>
    THEN <<>>
    ELSE PySliceTo(works, Max(c.max_nodes * 2, 0))

\* _execute_search; search is what the search agent and the mapping do.
execute_search(store, c, run_id, search) ==
    LET text == "Looking for relevant papers..."
        fail == "Failed to search papers: "
    IN
    IF c.pc = "search"
    THEN IF search.ok
         THEN LET papers_data == search_papers(c, search.works) IN
              Publish(store, c, run_id, "search-1", "search", text,
                      "in_progress",
                      [papers |-> Some(get_preview_papers(papers_data, 4))],
                      TRUE, fail, "search",
                      [c EXCEPT !.papers_data = Some(papers_data),
                                !.pc = "search_sleep"])
         ELSE StageFail(store, c, run_id, "search-1", "search", fail,
                        search.err, "search")
    ELSE Publish(store, c, run_id, "search-1", "search", text,
                 "done",
                 [papers |-> Some(get_preview_papers(c.papers_data[1], 4))],
                 TRUE, fail, "search", [c EXCEPT !.pc = "extraction"])

\* _execute_extraction; found is the set of authors the catalog resolves.
execute_extraction(store, c, run_id, found) ==
    LET text == "Extracting relevant professors..."
        fail == "Failed to extract professors: "
    IN
    IF c.pc = "extraction"
    THEN Publish(store, c, run_id, "extraction-1", "extraction", text,
                 "in_progress", [professors |-> Some(<<>>)],
                 FALSE, fail, "extraction",
                 [c EXCEPT !.pc = "extraction_fetch"])
    ELSE IF c.pc = "extraction_fetch"
    THEN LET nodes == extract_professors(c.papers_data, c.max_nodes, found) IN
         Publish(store, c, run_id, "extraction-1", "extraction", text,
                 "in_progress", [professors |-> Some(BasicProfessors(nodes))],
                 TRUE, fail, "extraction",
                 [c EXCEPT !.professor_nodes = Some(nodes),
                           !.pc = "extraction_sleep"])
    ELSE Publish(store, c, run_id, "extraction-1", "extraction", text,
                 "done",
                 [professors |-> Some(BasicProfessors(c.professor_nodes[1]))],
                 TRUE, fail, "extraction",
                 [c EXCEPT !.pc = "relationships"])

\* _execute_relationships
execute_relationships(store, c, run_id) ==
    LET text == "Analyzing relationships..."
        fail == "Failed to build relationships: "
    IN
    IF c.pc = "relationships"
    THEN Publish(store, c, run_id, "relationships-1", "relationships", text,
                 "in_progress", NoKw, FALSE, fail, "relationships",
                 [c EXCEPT !.pc = "relationships_build"])
    ELSE IF c.professor_nodes = None \/ c.professor_nodes[1] = <<>>
    THEN StageFail(store, c, run_id, "relationships-1", "relationships", fail,
                   "No professor nodes found for relationship building",
                   "relationships")
    ELSE Publish(store, c, run_id, "relationships-1", "relationships", text,
                 "done", NoKw, TRUE, fail, "relationships",
                 [c EXCEPT !.links = Some(build_graph_links(c.professor_nodes[1])),
                           !.pc = "graph"])

\* _execute_graph_construction storing the professor nodes alone, without
\* the viewer node.
execute_graph_construction_no_viewer(store, c, run_id) ==
    LET text == "Building the final graph..."
        fail == "Failed to construct graph: "
    IN
    IF c.pc = "graph"
    THEN Publish(store, c, run_id, "graph-1", "graph", text,
                 "in_progress", NoKw, FALSE, fail, "graph",
                 [c EXCEPT !.pc = "graph_build"])
    ELSE IF c.pc = "graph_build"
    THEN IF c.professor_nodes = None \/ c.links = None
         THEN StageFail(store, c, run_id, "graph-1", "graph", fail,
                        "TypeError", "graph")
         ELSE [store |-> set_run_graph(store, run_id,
                             Graph(c.professor_nodes[1],
                                   c.links[1])),
               c     |-> [c EXCEPT !.pc = "graph_done"]]
    ELSE Publish(store, c, run_id, "graph-1", "graph", text,
                 "done", NoKw, TRUE, fail, "graph",
                 [c EXCEPT !.pc = "tail", !.tail = RunSuccessTail])

\* _execute_graph_construction
execute_graph_construction(store, c, run_id) ==
    LET text == "Building the final graph..."
        fail == "Failed to construct graph: "
    IN
    IF c.pc = "graph"
    THEN Publish(store, c, run_id, "graph-1", "graph", text,
                 "in_progress", NoKw, FALSE, fail, "graph",
                 [c EXCEPT !.pc = "graph_build"])
    ELSE IF c.pc = "graph_build"
    THEN IF c.professor_nodes = None \/ c.links = None
         THEN StageFail(store, c, run_id, "graph-1", "graph", fail,
                        "TypeError", "graph")
         ELSE [store |-> set_run_graph(store, run_id,
                             Graph(c.professor_nodes[1] \o <<create_user_node>>,
                                   c.links[1])),
               c     |-> [c EXCEPT !.pc = "graph_done"]]
    ELSE Publish(store, c, run_id, "graph-1", "graph", text,
                 "done", NoKw, TRUE, fail, "graph",
                 [c EXCEPT !.pc = "tail", !.tail = RunSuccessTail])

\* _log_error that publishes a fixed message without the error text.
log_error_no_text(store, run_id, error_message) ==
    CallAddRunStep(store, run_id, "error-utcnow", "intent",
                   Msg("Error: ", ""), "done",
                   [details |-> None, sources |-> Some(<<>>)])

\* _log_error
log_error(store, run_id, error_message) ==
    CallAddRunStep(store, run_id, "error-utcnow", "intent",
                   Msg("Error: ", error_message), "done",
                   [details |-> None, sources |-> Some(<<>>)])

\* _save_run_to_database that returns early when the run has no graph.
save_run_to_database_skip(store, db, run_id, query, dbOK) ==
    LET run_data == get_run(store, run_id) IN
    IF run_data = None \/ ~run_data[1].graph_data.present
    THEN [store |-> store, db |-> db, calls |-> 0,
          outcome |-> "no_run_data", raised |-> "none"]
    ELSE LET res == db_create_run(db, run_id, query,
                                  run_data[1].graph_data, dbOK)
         IN  [store |-> store, db |-> res.db, calls |-> 1,
              outcome |-> IF res.raised = "none" THEN "saved" ELSE "failed",
              raised |-> "none"]

\* _save_run_to_database that reports a persistence failure as a step.
save_run_to_database_logging(store, db, run_id, query, dbOK) ==
    LET run_data == get_run(store, run_id) IN
    IF run_data = None
    THEN [store |-> store, db |-> db, calls |-> 0,
          outcome |-> "no_run_data", raised |-> "none"]
    ELSE LET res == db_create_run(db, run_id, query,
                                  run_data[1].graph_data, dbOK)
         IN  [store |-> IF res.raised = "none" THEN store
                        ELSE log_error(store, run_id, res.raised).store,
              db |-> res.db, calls |-> 1,
              outcome |-> IF res.raised = "none" THEN "saved" ELSE "failed",
              raised |-> "none"]

\* _save_run_to_database: the registry and the table after it, the number
\* of db.create_run calls it made, and the exception it lets escape.
save_run_to_database(store, db, run_id, query, dbOK) ==
    LET run_data == get_run(store, run_id) IN
    IF run_data = None
    THEN [store |-> store, db |-> db, calls |-> 0,
          outcome |-> "no_run_data", raised |-> "none"]
    ELSE LET res == db_create_run(db, run_id, query,
                                  run_data[1].graph_data, dbOK)
         IN  [store |-> store, db |-> res.db, calls |-> 1,
              outcome |-> IF res.raised = "none" THEN "saved" ELSE "failed",
              raised |-> "none"]

\* An exception leaves run(): the background task dies with it.
Escaped(c, e) == [c EXCEPT !.pc = "crashed", !.err = e]

\* run(), lines 63-75: the next statement of the tail of the try block or
\* of the except clause.
run_tail(store, db, c, run_id, dbOK) ==
    LET step == Head(c.tail)
        Advance(c2) ==
            [c2 EXCEPT !.tail = Tail(c.tail),
                       !.pc = IF Tail(c.tail) = <<>> THEN "done" ELSE "tail"]
    IN
    IF step = "log_error"
    THEN LET call == log_error(store, run_id, c.err) IN
         IF call.raised = "none"
         THEN [store |-> call.store, db |-> db, c |-> Advance(c)]
         ELSE [store |-> store, db |-> db, c |-> Escaped(c, call.raised)]
    ELSE IF step = "mark_completed"
    THEN [store |-> update_run_status(store, run_id, "completed"),
          db    |-> db,
          c     |-> Advance([c EXCEPT !.statusSets = @ + 1])]
    ELSE LET res == save_run_to_database(store, db, run_id, c.query, dbOK)
             c2  == [c EXCEPT !.dbCalls = @ + res.calls,
                              !.saveOutcome = res.outcome]
         IN  [store |-> res.store,
              db    |-> res.db,
              c     |-> IF res.raised = "none" THEN Advance(c2)
                        ELSE IF c.handler THEN Escaped(c2, res.raised)
                        ELSE Raised(c2, res.raised, "save")]

\* What the intent agent can do: return filters or raise.
IntentOutcomes ==
    {[ok |-> TRUE, filters |-> f, err |-> ""] : f \in FilterSet}
    \cup {[ok |-> FALSE, filters |-> f, err |-> "intent agent error"] :
              f \in {CHOOSE g \in FilterSet : g.topics = <<>>}}

\* What the search stage can meet: works from the catalog, or an exception
\* while decoding or mapping the response.
SearchOutcomes ==
    {[ok |-> TRUE, works |-> w, err |-> ""] : w \in WorkLists}
    \cup {[ok |-> FALSE, works |-> <<>>, err |-> "search error"]}

\* run(): one step of the execution c, dispatched on its position.
run_step(store, db, c, run_id, intent, search, found, dbOK) ==
    LET Stage(res) == [store |-> res.store, db |-> db, c |-> res.c] IN
    IF c.pc \in {"filters", "filters_sleep"}
    THEN Stage(execute_intent_extraction(store, c, run_id, intent))
    ELSE IF c.pc \in {"search", "search_sleep"}
    THEN Stage(execute_search(store, c, run_id, search))
    ELSE IF c.pc \in {"extraction", "extraction_fetch", "extraction_sleep"}
    THEN Stage(execute_extraction(store, c, run_id, found))
    ELSE IF c.pc \in {"relationships", "relationships_build"}
    THEN Stage(execute_relationships(store, c, run_id))
    ELSE IF c.pc \in {"graph", "graph_build", "graph_done"}
    THEN Stage(execute_graph_construction(store, c, run_id))
    ELSE run_tail(store, db, c, run_id, dbOK)

RunActive(r) == orch[r].pc \notin {"idle", "done", "crashed"}

(***************************************************************************)
(* services/simulation_service.py                                          *)
(***************************************************************************)
\* The (step_name, step_message) pairs of simulate_agent_run.
SimulationSteps ==
    <<"Intent Recognition", "Query Expansion", "OpenAlex Search",
      "Citation Analysis", "Graph Construction", "Relevance Scoring",
      "Finalization">>

\* generate_mock_graph: four fixed nodes, then one node per index up to
\* max_nodes, and one link per node after the first.
generate_mock_graph(max_nodes) ==
    LET n == Max(4, max_nodes) IN
    Graph([i \in 1..n |-> [id |-> "mock", institution |-> None, h_index |-> None]],
          [i \in 1..(n - 1) |-> GraphLink("mock", "mock", "works_at")])

IdleTask == [pc |-> "none", i |-> 0, max_nodes |-> 0]

\* simulate_agent_run: one step of the background task t of run_id.  The
\* loop calls add_run_step(run_id, step_name, step_message) positionally.
simulate_agent_run(store, t, run_id) ==
    IF t.pc = "loop"
    THEN LET e == AddRunStepBindError(3, {}) IN
         IF e # "none"
         THEN [store |-> store, t |-> [t EXCEPT !.pc = "raised"]]
         ELSE [store |-> add_run_step(store, run_id, SimulationSteps[t.i],
                                      "", Msg("", ""), "done", NoKw),
               t     |-> IF t.i = Len(SimulationSteps)
                         THEN [t EXCEPT !.pc = "graph"]
                         ELSE [t EXCEPT !.i = @ + 1]]
    ELSE IF t.pc = "graph"
    THEN [store |-> set_run_graph(store, run_id, generate_mock_graph(t.max_nodes)),
          t     |-> [t EXCEPT !.pc = "status"]]
    ELSE [store |-> update_run_status(store, run_id, "completed"),
          t     |-> [t EXCEPT !.pc = "finished"]]

(***************************************************************************)
(* State machine of the service.                                           *)
(***************************************************************************)
NoPoll == [code |-> 0, run_id |-> "", status |-> "", steps |-> <<>>,
           graph_data |-> NoGraph]

NoOp == [op |-> "none", run_id |-> "", prev |-> None, result |-> None,
         raised |-> "none"]

NoUnit == [op |-> "none"]

Init ==
    /\ run_store = <<>>
    /\ db_run = <<>>
    /\ task = [r \in RunIds |-> IdleTask]
    /\ orch = [r \in RunIds |-> IdleRun]
    /\ lastPoll = NoPoll
    /\ lastOp = NoOp
    /\ unit = NoUnit

\* routers/agent.py start_agent_run: a fresh uuid4 run id, the run record,
\* and the background task.
StartAgentRun(r) ==
    /\ r \notin DOMAIN run_store
    /\ task[r].pc = "none"
    /\ orch[r].pc = "idle"
    /\ \E query \in Queries, max_nodes \in MaxNodesSet :
          /\ run_store' = create_run(run_store, r, query, None, max_nodes)
          /\ task' = [task EXCEPT ![r] = [pc |-> "loop", i |-> 1,
                                          max_nodes |-> max_nodes]]
    /\ UNCHANGED <<db_run, orch, lastPoll, lastOp, unit>>

\* The background task of run r advances.
SimulateAgentRun(r) ==
    /\ task[r].pc \in {"loop", "graph", "status"}
    /\ LET res == simulate_agent_run(run_store, task[r], r) IN
          /\ run_store' = res.store
          /\ task' = [task EXCEPT ![r] = res.t]
    /\ UNCHANGED <<db_run, orch, lastPoll, lastOp, unit>>

\* routers/agent.py get_agent_status: a client polls run r.
GetAgentStatus(r) ==
    /\ lastPoll' = get_agent_status(run_store, r)
    /\ UNCHANGED <<run_store, db_run, task, orch, lastOp, unit>>

\* ResearchAgentOrchestrator.run(context) is called for the run r of the
\* registry, with the AgentContext of its request.
RunBegin(r) ==
    /\ orch[r].pc = "idle"
    /\ r \in DOMAIN run_store
    /\ orch' = [orch EXCEPT ![r] =
                   [IdleRun EXCEPT !.pc = "filters",
                                   !.query = run_store[r].query,
                                   !.max_nodes = run_store[r].max_nodes,
                                   !.created = TRUE]]
    /\ UNCHANGED <<run_store, db_run, task, lastPoll, lastOp, unit>>

\* The collaborator outcomes the current statement of c depends on.
RunInputs(c) ==
    LET intents  == IF c.pc = "filters" THEN IntentOutcomes
                    ELSE {CHOOSE i \in IntentOutcomes : ~i.ok}
        searches == IF c.pc = "search" THEN SearchOutcomes
                    ELSE {CHOOSE s \in SearchOutcomes : ~s.ok}
        founds   == IF c.pc = "extraction_fetch" THEN SUBSET AuthorIds
                    ELSE {{}}
        dbOKs    == IF c.pc = "tail" /\ Head(c.tail) = "save" THEN BOOLEAN
                    ELSE {TRUE}
    IN  [intent : intents, search : searches, found : founds, dbOK : dbOKs]

\* ResearchAgentOrchestrator.run: the execution for run r advances.
Run(r) ==
    /\ RunActive(r)
    /\ \E in \in RunInputs(orch[r]) :
          LET res == run_step(run_store, db_run, orch[r], r,
                              in.intent, in.search, in.found, in.dbOK)
          IN  /\ run_store' = res.store
              /\ db_run' = res.db
              /\ orch' = [orch EXCEPT ![r] = res.c]
    /\ UNCHANGED <<task, lastPoll, lastOp, unit>>

Next ==
    \E r \in RunIds :
        \/ StartAgentRun(r)
        \/ SimulateAgentRun(r)
        \/ RunBegin(r)
        \/ Run(r)

Spec == Init /\ [][Next]_vars

\* The service serving a single request: one run is triggered, its
\* background task and its pipeline execution run.
SingleNext ==
    \E r \in RunIds :
        \/ run_store = <<>> /\ StartAgentRun(r)
        \/ SimulateAgentRun(r)
        \/ RunBegin(r)
        \/ Run(r)

\* The background work is scheduled: an execution that can take a step
\* eventually takes it (every external call returns or raises).
FairSpec ==
    /\ Init /\ [][SingleNext]_vars
    /\ \A r \in RunIds : WF_vars(Run(r)) /\ WF_vars(SimulateAgentRun(r))

\* The service with clients polling the status endpoint.
PollNext ==
    \/ Next
    \/ \E r \in RunIds : GetAgentStatus(r)

PollSpec == Init /\ [][PollNext]_vars

(***************************************************************************)
(* The StateManager methods called directly, with any arguments.           *)
(***************************************************************************)
ApiSteps ==
    [step_id : {"filters-1"}, status : {"in_progress", "done"}]

ApiGraphs == {Graph(<<create_user_node>>, <<>>)}

\* The call op(r, ...) is recorded with the record r had before it (prev),
\* what it returned and what it raised.
Called(op, r, result, raised) ==
    lastOp' = [op |-> op, run_id |-> r, prev |-> get_run(run_store, r),
               result |-> result, raised |-> raised]

ApiCreateRun(r) ==
    /\ \E query \in Queries, max_nodes \in MaxNodesSet :
          run_store' = create_run(run_store, r, query, None, max_nodes)
    /\ Called("create_run", r, None, "none")
    /\ UNCHANGED <<db_run, task, orch, lastPoll, unit>>

ApiGetRun(r) ==
    /\ Called("get_run", r, get_run(run_store, r), "none")
    /\ UNCHANGED <<run_store, db_run, task, orch, lastPoll, unit>>

ApiUpdateRunStatus(r) ==
    /\ \E status \in {"running", "completed"} :
          run_store' = update_run_status(run_store, r, status)
    /\ Called("update_run_status", r, None, "none")
    /\ UNCHANGED <<db_run, task, orch, lastPoll, unit>>

ApiAddRunStep(r) ==
    /\ r \in DOMAIN run_store => Len(run_store[r].steps) < MaxSteps
    /\ \E st \in ApiSteps :
          LET call == CallAddRunStep(run_store, r, st.step_id, "filters",
                                     Msg("Understanding your research interests...", ""),
                                     st.status, NoKw)
          IN  /\ run_store' = call.store
              /\ Called("add_run_step", r, None, call.raised)
    /\ UNCHANGED <<db_run, task, orch, lastPoll, unit>>

ApiSetRunGraph(r) ==
    /\ \E g \in ApiGraphs : run_store' = set_run_graph(run_store, r, g)
    /\ Called("set_run_graph", r, None, "none")
    /\ UNCHANGED <<db_run, task, orch, lastPoll, unit>>

RegistryNext ==
    \E r \in RunIds :
        \/ ApiCreateRun(r)
        \/ ApiGetRun(r)
        \/ ApiUpdateRunStatus(r)
        \/ ApiAddRunStep(r)
        \/ ApiSetRunGraph(r)

RegistrySpec == Init /\ [][RegistryNext]_vars

(***************************************************************************)
(* utils/graph_builder.py called directly on a professor list.             *)
(***************************************************************************)
MaxProfs == 3

\* Identifiers of the institutions professors are grouped by.
Institutions == {"I1", "I2"}

HIndexes == {0, 1}

\* Professor GraphNode dicts: id, the institution (or None) and the h-index
\* (or None).
ProfessorNodes ==
    [id          : AuthorIds,
     institution : {None} \cup {Some(i) : i \in Institutions},
     h_index     : {None} \cup {Some(h) : h \in HIndexes}]

\* Professor lists: a node is identified by its author id, and the list may
\* hold the same node more than once.
ProfessorLists ==
    {ps \in UNION {[1..n -> ProfessorNodes] : n \in 0..MaxProfs} :
        \A i \in 1..Len(ps), j \in 1..Len(ps) :
            ps[i].id = ps[j].id => ps[i] = ps[j]}

GraphInit ==
    /\ run_store = <<>>
    /\ db_run = <<>>
    /\ task = [r \in RunIds |-> IdleTask]
    /\ orch = [r \in RunIds |-> IdleRun]
    /\ lastPoll = NoPoll
    /\ lastOp = NoOp
    /\ unit \in {[op |-> "input", professor_nodes |-> ps, links |-> <<>>] :
                    ps \in ProfessorLists}

\* links = build_graph_links(professor_nodes)
BuildGraphLinks ==
    /\ unit.op = "input"
    /\ unit' = [unit EXCEPT !.op = "build_graph_links",
                            !.links = build_graph_links(unit.professor_nodes)]
    /\ UNCHANGED <<run_store, db_run, task, orch, lastPoll, lastOp>>

GraphSpec == GraphInit /\ [][BuildGraphLinks]_vars

(***************************************************************************)
(* The pipeline from the papers onward, its methods called directly:       *)
(* ExtractionAgent.extract_professors(context), then the relationship and  *)
(* graph stages and the end of run() on the same context.                  *)
(***************************************************************************)
\* A work whose first author has no institution.
Work3 == [title |-> "w3", authorships |-> <<"A3", "A1">>]

\* The works the catalog can have returned to the search stage.
StageWorkLists == WorkLists \cup {<<Work3>>, <<Work3, Work1>>}

\* The papers _execute_search can have left in the context.
PapersData(max_nodes) ==
    {PySliceTo(w, Max(max_nodes * 2, 0)) : w \in StageWorkLists}

StageInit ==
    /\ db_run = <<>>
    /\ task = [r \in RunIds |-> IdleTask]
    /\ orch = [r \in RunIds |-> IdleRun]
    /\ lastPoll = NoPoll
    /\ lastOp = NoOp
    /\ \E r \in RunIds, query \in Queries, max_nodes \in MaxNodesSet :
          /\ run_store = create_run(<<>>, r, query, None, max_nodes)
          /\ \E pd \in PapersData(max_nodes) :
                unit = [op |-> "input", run_id |-> r, papers_data |-> pd,
                        author_ids |-> <<>>, found |-> {}, professors |-> <<>>]

\* professor_nodes, basic_professors = extraction_agent.extract_professors(context);
\* found is the set of author ids for which get_author returns a profile.
ExtractProfessors(r) ==
    /\ unit.op = "input" /\ unit.run_id = r
    /\ \E found \in SUBSET AuthorIds :
          LET max_nodes == run_store[r].max_nodes
              nodes == extract_professors(Some(unit.papers_data), max_nodes, found)
          IN  /\ unit' = [unit EXCEPT
                            !.op = "extract_professors",
                            !.author_ids = extract_author_ids_from_papers(
                                               unit.papers_data, max_nodes, 2),
                            !.found = found,
                            !.professors = nodes]
              /\ orch' = [orch EXCEPT ![r] =
                            [IdleRun EXCEPT !.pc = "relationships",
                                            !.query = run_store[r].query,
                                            !.max_nodes = max_nodes,
                                            !.papers_data = Some(unit.papers_data),
                                            !.professor_nodes = Some(nodes),
                                            !.created = TRUE]]
    /\ UNCHANGED <<run_store, db_run, task, lastPoll, lastOp>>

StageNext == \E r \in RunIds : ExtractProfessors(r) \/ Run(r)

StageSpec == StageInit /\ [][StageNext]_vars

(***************************************************************************)
(* The OpenAlexClient operations called directly, on any response.         *)
(***************************************************************************)
Topics == {"robotics", "vision"}

\* The topic lists of a filter and, for each topic, the response its
\* concept search gets.
TopicCalls ==
    UNION {[topics : [1..n -> Topics], cresps : [1..n -> ConceptResponses]] :
               n \in 0..MaxTopics}

NoResult == Returned(None, <<>>, <<>>)

ClientCall(call, topics, cresps, resp) ==
    [op |-> "input", call |-> call, topics |-> topics, cresps |-> cresps,
     resp |-> resp, result |-> NoResult]

ClientInit ==
    /\ run_store = <<>>
    /\ db_run = <<>>
    /\ task = [r \in RunIds |-> IdleTask]
    /\ orch = [r \in RunIds |-> IdleRun]
    /\ lastPoll = NoPoll
    /\ lastOp = NoOp
    /\ unit \in
          {ClientCall("search_concepts", <<t>>, <<r>>, r) :
               t \in Topics, r \in ConceptResponses}
          \cup {ClientCall("search_works_by_concepts", <<>>, <<>>, r) :
                    r \in WorksResponses}
          \cup {ClientCall("get_author", <<>>, <<>>, r) : r \in AuthorResponses}
          \cup {ClientCall("get_author_works", <<>>, <<>>, r) :
                    r \in WorksResponses}
          \cup {ClientCall("search_papers_by_topics", tc.topics, tc.cresps, r) :
                    tc \in TopicCalls, r \in WorksResponses}

ClientReturn(call, result) ==
    /\ unit' = [unit EXCEPT !.op = call, !.result = result]
    /\ UNCHANGED <<run_store, db_run, task, orch, lastPoll, lastOp>>

SearchConcepts ==
    /\ unit.op = "input" /\ unit.call = "search_concepts"
    /\ ClientReturn("search_concepts",
                    search_concepts(unit.topics[1], unit.resp))

SearchWorksByConcepts ==
    /\ unit.op = "input" /\ unit.call = "search_works_by_concepts"
    /\ ClientReturn("search_works_by_concepts",
                    search_works_by_concepts(<<"C1">>, unit.resp))

SearchPapersByTopics ==
    /\ unit.op = "input" /\ unit.call = "search_papers_by_topics"
    /\ ClientReturn("search_papers_by_topics",
                    search_papers_by_topics(unit.topics, unit.cresps, unit.resp))

GetAuthor ==
    /\ unit.op = "input" /\ unit.call = "get_author"
    /\ ClientReturn("get_author", get_author("A1", unit.resp))

GetAuthorWorks ==
    /\ unit.op = "input" /\ unit.call = "get_author_works"
    /\ ClientReturn("get_author_works", get_author_works("A1", unit.resp))

ClientNext ==
    \/ SearchConcepts
    \/ SearchWorksByConcepts
    \/ SearchPapersByTopics
    \/ GetAuthor
    \/ GetAuthorWorks

ClientSpec == ClientInit /\ [][ClientNext]_vars

(***************************************************************************)
(* ExtractionAgent.extract_professors and extract_author_ids_from_papers   *)
(* called directly, on any works list and any max_nodes.                   *)
(***************************************************************************)
MaxWorks == 3

\* A work that lists the same author twice.
Work4 == [title |-> "w4", authorships |-> <<"A1", "A1", "A2">>]

\* The works lists of at most MaxWorks works.
ExtractWorkLists ==
    UNION {[1..n -> {Work1, Work2, Work3, Work4}] : n \in 0..MaxWorks}

\* The values of AgentRunRequest.max_nodes: any integer, negative ones
\* included.
ExtractMaxNodes == (-1)..(MaxNodesBound + 1)

\* The catalog lookups of the loop of extract_professors, in call order:
\* get_author for every author id, get_author_works for those whose profile
\* was found.
extract_professors_lookups(papers_data, max_nodes, found) ==
    IF papers_data = None \/ papers_data[1] = <<>>
    THEN [get_author |-> <<>>, get_author_works |-> <<>>]
    ELSE LET author_ids == extract_author_ids_from_papers(papers_data[1], max_nodes, 2)
         IN  [get_author |-> author_ids,
              get_author_works |-> SelectSeq(author_ids, LAMBDA a : a \in found)]

ExtractInit ==
    /\ run_store = <<>>
    /\ db_run = <<>>
    /\ task = [r \in RunIds |-> IdleTask]
    /\ orch = [r \in RunIds |-> IdleRun]
    /\ lastPoll = NoPoll
    /\ lastOp = NoOp
    /\ \E papers \in ExtractWorkLists, max_nodes \in ExtractMaxNodes :
          unit = [op |-> "input", papers |-> papers, max_nodes |-> max_nodes,
                  found |-> {}, author_ids |-> <<>>, get_author |-> <<>>,
                  get_author_works |-> <<>>, professors |-> <<>>]

\* extract_author_ids_from_papers(papers, max_papers=max_nodes,
\* authors_per_paper=2)
ExtractAuthorIds ==
    /\ unit.op = "input"
    /\ unit' = [unit EXCEPT
                  !.op = "extract_author_ids_from_papers",
                  !.author_ids = extract_author_ids_from_papers(
                                     unit.papers, unit.max_nodes, 2)]
    /\ UNCHANGED <<run_store, db_run, task, orch, lastPoll, lastOp>>

\* extract_professors(context) with context.papers_data = papers and
\* context.max_nodes = max_nodes; found is the set of author ids for which
\* get_author returns a profile.
ExtractProfessorsCall ==
    /\ unit.op = "input"
    /\ \E found \in SUBSET AuthorIds :
          LET calls == extract_professors_lookups(Some(unit.papers),
                                                  unit.max_nodes, found)
          IN  unit' = [unit EXCEPT
                         !.op = "extract_professors",
                         !.found = found,
                         !.get_author = calls.get_author,
                         !.get_author_works = calls.get_author_works,
                         !.professors = extract_professors(
                                            Some(unit.papers), unit.max_nodes, found)]
    /\ UNCHANGED <<run_store, db_run, task, orch, lastPoll, lastOp>>

ExtractNext == ExtractAuthorIds \/ ExtractProfessorsCall

ExtractSpec == ExtractInit /\ [][ExtractNext]_vars

(***************************************************************************)
(* The search stage called directly, with the catalog client behind it.    *)
(***************************************************************************)
\* The responses a works query can get when the catalog has works.
StageWorksResponses == Responses({<<Work1, Work2>>})

\* The number of works queries SearchAgent.search_papers issues: none when
\* the filter has no topics or no topic resolves to a concept id.
search_papers_works_queries(topics, cresps) ==
    IF topics = <<>> THEN 0
    ELSE LET concept_ids == get_concept_ids_from_topics(topics, cresps) IN
         IF concept_ids.raised # "none" \/ concept_ids.results = <<>> THEN 0
         ELSE 1

\* SearchAgent.search_papers with the responses the catalog gives, as the
\* outcome _execute_search works on.
search_agent_outcome(topics, cresps, wresp) ==
    LET page == IF topics = <<>> THEN Returned(None, <<>>, <<>>)
                ELSE search_papers_by_topics(topics, cresps, wresp)
    IN  IF page.raised = "none"
        THEN [ok |-> TRUE, works |-> page.results, err |-> ""]
        ELSE [ok |-> FALSE, works |-> <<>>, err |-> page.raised]

SearchInit ==
    /\ db_run = <<>>
    /\ task = [r \in RunIds |-> IdleTask]
    /\ lastPoll = NoPoll
    /\ lastOp = NoOp
    /\ \E r \in RunIds, query \in Queries, max_nodes \in MaxNodesSet :
          /\ run_store = create_run(<<>>, r, query, None, max_nodes)
          /\ \E tc \in TopicCalls, wresp \in StageWorksResponses :
                /\ orch = [q \in RunIds |->
                             IF q = r
                             THEN [IdleRun EXCEPT
                                     !.pc = "search",
                                     !.query = query,
                                     !.max_nodes = max_nodes,
                                     !.filters = Some([topics |-> tc.topics,
                                                       geographical_areas |-> <<>>,
                                                       institutions |-> <<>>]),
                                     !.created = TRUE]
                             ELSE IdleRun]
                /\ unit = [op |-> "input", run_id |-> r, cresps |-> tc.cresps,
                           wresp |-> wresp, works_queries |-> 0]

\* search_results = self.search_agent.search_papers(context) and the
\* 'in_progress' entry that follows it in _execute_search.
SearchStage(r) ==
    /\ unit.op = "input" /\ unit.run_id = r
    /\ orch[r].pc = "search"
    /\ LET topics == orch[r].filters[1].topics
           res == execute_search(run_store, orch[r], r,
                      search_agent_outcome(topics, unit.cresps, unit.wresp))
       IN  /\ run_store' = res.store
           /\ orch' = [orch EXCEPT ![r] = res.c]
           /\ unit' = [unit EXCEPT
                         !.op = "search_papers",
                         !.works_queries =
                             search_papers_works_queries(topics, unit.cresps)]
    /\ UNCHANGED <<db_run, task, lastPoll, lastOp>>

\* The rest of run() after the search agent has answered.
SearchRun(r) ==
    /\ orch[r].pc # "search"
    /\ Run(r)

SearchNext == \E r \in RunIds : SearchStage(r) \/ SearchRun(r)

SearchSpec == SearchInit /\ [][SearchNext]_vars

(***************************************************************************)
(* The relationship and graph stages called a second time on the context   *)
(* they have already worked on.                                            *)
(***************************************************************************)
RerunInit ==
    /\ db_run = <<>>
    /\ task = [r \in RunIds |-> IdleTask]
    /\ orch = [r \in RunIds |-> IdleRun]
    /\ lastPoll = NoPoll
    /\ lastOp = NoOp
    /\ \E r \in RunIds, query \in Queries, max_nodes \in MaxNodesSet :
          /\ run_store = create_run(<<>>, r, query, None, max_nodes)
          /\ \E pd \in PapersData(max_nodes) :
                unit = [op |-> "input", run_id |-> r, papers_data |-> pd,
                        author_ids |-> <<>>, found |-> {}, professors |-> <<>>,
                        first_graph |-> NoGraph, first_links |-> None]

\* _execute_relationships(context) is called again once both stages have
\* returned; the graph and the links of the first pass are remembered.
Rerun(r) ==
    /\ unit.op = "extract_professors" /\ unit.run_id = r
    /\ orch[r].pc = "tail" /\ orch[r].tail = RunSuccessTail
    /\ orch' = [orch EXCEPT ![r].pc = "relationships", ![r].tail = <<>>]
    /\ unit' = [unit EXCEPT !.op = "rerun",
                            !.first_graph = run_store[r].graph_data,
                            !.first_links = orch[r].links]
    /\ UNCHANGED <<run_store, db_run, task, lastPoll, lastOp>>

RerunNext == \E r \in RunIds : ExtractProfessors(r) \/ Run(r) \/ Rerun(r)

RerunSpec == RerunInit /\ [][RerunNext]_vars

(***************************************************************************)
(* A caller that keeps the value get_run returned while the registry is    *)
(* written.  get_run returns run_store.get(run_id): the dict object the    *)
(* registry holds, not a copy of it.  unit.attached says that the object   *)
(* returned is still the one stored under its id; create_run stores a new  *)
(* object, the other writers change the stored object in place.            *)
(***************************************************************************)
NoHeld == [op |-> "none", run_id |-> "", returned |-> None,
           attached |-> FALSE, object |-> None]

HeldInit ==
    /\ run_store = <<>>
    /\ db_run = <<>>
    /\ task = [r \in RunIds |-> IdleTask]
    /\ orch = [r \in RunIds |-> IdleRun]
    /\ lastPoll = NoPoll
    /\ lastOp = NoOp
    /\ unit = NoHeld

\* What the value held by the caller reads now.
Held ==
    IF unit.attached THEN Some(run_store[unit.run_id]) ELSE unit.object

\* run_data = state_manager.get_run(r), kept by the caller.
HoldRun(r) ==
    /\ unit.op = "none"
    /\ unit' = [op |-> "get_run", run_id |-> r,
                returned |-> get_run(run_store, r),
                attached |-> r \in DOMAIN run_store,
                object |-> get_run(run_store, r)]
    /\ UNCHANGED <<run_store, db_run, task, orch, lastPoll, lastOp>>

\* create_run(r, ...): run_store[r] is bound to a new dict; an object held
\* for r keeps what it had.
HeldCreateRun(r) ==
    /\ \E query \in Queries, max_nodes \in MaxNodesSet :
          run_store' = create_run(run_store, r, query, None, max_nodes)
    /\ unit' = IF unit.attached /\ unit.run_id = r
               THEN [unit EXCEPT !.attached = FALSE,
                                 !.object = Some(run_store[r])]
               ELSE unit
    /\ UNCHANGED <<db_run, task, orch, lastPoll, lastOp>>

\* The writers that change the stored dict in place.
HeldUpdateRunStatus(r) ==
    /\ \E status \in {"running", "completed"} :
          run_store' = update_run_status(run_store, r, status)
    /\ UNCHANGED <<db_run, task, orch, lastPoll, lastOp, unit>>

HeldAddRunStep(r) ==
    /\ r \in DOMAIN run_store => Len(run_store[r].steps) < MaxSteps
    /\ \E st \in ApiSteps :
          run_store' = add_run_step(run_store, r, st.step_id, "filters",
                           Msg("Understanding your research interests...", ""),
                           st.status, NoKw)
    /\ UNCHANGED <<db_run, task, orch, lastPoll, lastOp, unit>>

HeldSetRunGraph(r) ==
    /\ \E g \in ApiGraphs : run_store' = set_run_graph(run_store, r, g)
    /\ UNCHANGED <<db_run, task, orch, lastPoll, lastOp, unit>>

\* One run id is enough: the writers touch the record of their own id only.
HeldRunIds == {"r1"}

HeldNext ==
    \E r \in HeldRunIds :
        \/ HoldRun(r)
        \/ HeldCreateRun(r)
        \/ HeldUpdateRunStatus(r)
        \/ HeldAddRunStep(r)
        \/ HeldSetRunGraph(r)

HeldSpec == HeldInit /\ [][HeldNext]_vars

(***************************************************************************)
(* Properties.                                                             *)
(***************************************************************************)
Completed(r) == r \in DOMAIN run_store /\ run_store[r].status = "completed"

StepsOf(r) == IF r \in DOMAIN run_store THEN run_store[r].steps ELSE <<>>

\* The run is in the registry and a stage of its execution raised.
FailedRun(r) == orch[r].created /\ orch[r].raisedAt # "none"

\* C1: every execution of ResearchAgentOrchestrator.run for a run that is in
\* the registry terminates, whichever stage raises, and when it has
\* terminated the run's status is 'completed'.
C1_RunEndsCompleted ==
    \A r \in RunIds :
        [](orch[r].pc # "idle" /\ orch[r].created
              => <>(orch[r].pc = "done" /\ Completed(r)))

C1_Witness ==
    \E r \in RunIds :
        /\ orch[r].pc = "done" /\ FailedRun(r) /\ Completed(r)
        /\ orch[r].raisedAt = "search"

\* C2: when the background task that start_agent_run scheduled for a run has
\* ended, the run's status is 'completed' (the polling client sees it).
C2_TriggeredRunCompletes ==
    \A r \in RunIds :
        task[r].pc \in {"finished", "raised"} => Completed(r)

\* C3: an execution of run sets the status to 'completed' exactly once: never
\* twice at any point, once when it has ended, and no exception of the
\* persistence step ends it another way.
C3_CompletedExactlyOnce ==
    \A r \in RunIds :
        /\ orch[r].statusSets <= 1
        /\ orch[r].pc # "crashed"
        /\ orch[r].pc = "done" => orch[r].statusSets = 1
        /\ orch[r].created /\ orch[r].statusSets = 1 => Completed(r)

C3_Witness ==
    \E r \in RunIds :
        /\ orch[r].pc = "done" /\ FailedRun(r)
        /\ orch[r].saveOutcome = "failed" /\ orch[r].statusSets = 1

\* The step entries a failure path appends.
IsErrorEntry(s) == s.message[1] = "Error: "
IsStageFailureEntry(s) ==
    s.message[1] \in {"Failed to extract filters: ", "Failed to search papers: ",
                      "Failed to extract professors: ",
                      "Failed to build relationships: ",
                      "Failed to construct graph: "}

PrecededByInProgress(steps, i) ==
    \E j \in 1..(i - 1) :
        steps[j].step_id = steps[i].step_id /\ steps[j].status = "in_progress"

\* C4 as claimed: in every step log, every 'done' entry is preceded by an
\* 'in_progress' entry with the same step_id, on failure paths too.
C4_DonePrecededByInProgress ==
    \A r \in DOMAIN run_store :
        \A i \in 1..Len(run_store[r].steps) :
            run_store[r].steps[i].status = "done"
                => PrecededByInProgress(run_store[r].steps, i)

\* C4 as amended: every 'done' entry is preceded by an 'in_progress' entry
\* with the same step_id, except the 'Error: ...' entry of _log_error and the
\* 'Failed to ...' entries of filters-1 and search-1.
C4_StageDonePrecededByInProgress ==
    \A r \in DOMAIN run_store :
        \A i \in 1..Len(run_store[r].steps) :
            LET s == run_store[r].steps[i] IN
            /\ s.status = "done"
            /\ ~IsErrorEntry(s)
            /\ ~(IsStageFailureEntry(s) /\ s.step_id \in {"filters-1", "search-1"})
            => PrecededByInProgress(run_store[r].steps, i)

C4_Witness ==
    \E r \in DOMAIN run_store :
        LET steps == run_store[r].steps IN
        /\ \E i \in 1..Len(steps) :
              /\ steps[i].status = "done" /\ steps[i].step_id = "search-1"
              /\ ~IsStageFailureEntry(steps[i])
              /\ PrecededByInProgress(steps, i)
        /\ \E i \in 1..Len(steps) : IsErrorEntry(steps[i])

\* C5: when a stage raises, the 'Error: <text>' step is appended before the
\* status is set, the status is set before persistence is attempted, and
\* from then on the last entry of the log is that 'done' step with the error
\* text of the stage that raised.
C5_ErrorStepThenCompletedThenSave ==
    \A r \in RunIds :
        FailedRun(r) =>
            LET steps == StepsOf(r)
                logged == /\ steps # <<>>
                          /\ steps[Len(steps)].status = "done"
                          /\ steps[Len(steps)].message = Msg("Error: ", orch[r].err)
            IN  /\ orch[r].statusSets > 0 => logged
                /\ orch[r].saveOutcome # "none" => orch[r].statusSets > 0 /\ Completed(r)
                /\ orch[r].pc = "done" => logged /\ orch[r].saveOutcome # "none"

C5_Witness ==
    \E r \in RunIds :
        /\ FailedRun(r) /\ orch[r].pc = "done"
        /\ orch[r].raisedAt = "filters"
        /\ StepsOf(r)[Len(StepsOf(r))].message = Msg("Error: ", "intent agent error")

\* A stage of the execution for r raised before set_run_graph had stored
\* the graph.
RaisedBeforeGraph(r) ==
    /\ orch[r].raisedAt \in {"filters", "search", "extraction",
                             "relationships", "graph"}
    /\ orch[r].raisedPc # "graph_done"

\* C6: a completed run has no graph_data exactly if a stage raised before the
\* graph was stored, and no poll returns status 'completed' without
\* graph_data for a run none of whose stages raised.
C6_GraphAbsentIffStageRaised ==
    /\ \A r \in DOMAIN run_store :
          run_store[r].status = "completed"
              => (~run_store[r].graph_data.present <=> RaisedBeforeGraph(r))
    /\ lastPoll.code = 200 /\ lastPoll.status = "completed"
          /\ ~lastPoll.graph_data.present
          => RaisedBeforeGraph(lastPoll.run_id)

C6_Witness ==
    /\ lastPoll.code = 200 /\ lastPoll.status = "completed"
    /\ ~lastPoll.graph_data.present
    /\ orch[lastPoll.run_id].raisedAt = "extraction"

\* C7: an execution for a run in the registry calls db.create_run exactly
\* once, after the status was set to 'completed', with the run id, the query
\* and the run's graph.
C7_PersistedOnceAfterCompleted ==
    \A r \in RunIds :
        orch[r].created =>
            /\ orch[r].dbCalls <= 1
            /\ orch[r].dbCalls > 0 => orch[r].statusSets = 1 /\ Completed(r)
            /\ orch[r].pc = "done" => orch[r].dbCalls = 1
            /\ orch[r].saveOutcome = "saved" =>
                  /\ r \in DOMAIN db_run
                  /\ db_run[r] = [query |-> orch[r].query,
                                  graph_data |-> run_store[r].graph_data]

C7_Witness ==
    \E r \in RunIds :
        /\ orch[r].created /\ orch[r].pc = "done"
        /\ orch[r].dbCalls = 1 /\ orch[r].saveOutcome = "saved"
        /\ FailedRun(r)

\* C8: the step in which the persistence call fails changes nothing in the
\* registry and ends the execution normally: no error step, status still
\* 'completed', nothing propagated.
C8_SaveFailureContained ==
    [][\A r \in RunIds :
          /\ orch[r].pc = "tail" /\ Head(orch[r].tail) = "save"
          /\ orch'[r] # orch[r]
          /\ orch'[r].saveOutcome = "failed"
          => /\ run_store' = run_store
             /\ orch'[r].pc = "done"
             /\ Completed(r)]_vars

C8_Witness ==
    \E r \in RunIds :
        /\ orch[r].pc = "done" /\ orch[r].saveOutcome = "failed"
        /\ orch[r].dbCalls = 1 /\ Completed(r)
        /\ Cardinality({i \in 1..Len(StepsOf(r)) : IsErrorEntry(StepsOf(r)[i])}) = 1

\* C9: add_run_step, update_run_status, set_run_graph and get_run called with
\* a run id that is not in the registry leave the registry as it was and do
\* not raise, and get_run returns not-found.
C9_MissingRunIsNoOp ==
    [][/\ lastOp'.op \in {"add_run_step", "update_run_status",
                          "set_run_graph", "get_run"}
       /\ lastOp'.run_id \notin DOMAIN run_store
       => /\ run_store' = run_store
          /\ lastOp'.raised = "none"
          /\ lastOp'.op = "get_run" => lastOp'.result = None]_vars

C9_Witness ==
    /\ lastOp.op = "add_run_step"
    /\ lastOp.prev = None
    /\ lastOp.run_id \notin DOMAIN run_store
    /\ run_store # <<>>

\* C10: create_run(run_id, ...) leaves for run_id a record with status
\* 'running', no steps and no graph, whatever record the id had before, and
\* leaves the records of all other ids as they were.
C10_CreateRunReplaces ==
    [][lastOp'.op = "create_run"
       => LET r == lastOp'.run_id IN
          /\ DOMAIN run_store' = DOMAIN run_store \cup {r}
          /\ run_store'[r].status = "running"
          /\ run_store'[r].steps = <<>>
          /\ run_store'[r].graph_data = NoGraph
          /\ \A o \in DOMAIN run_store \ {r} : run_store'[o] = run_store[o]]_vars

C10_Witness ==
    /\ lastOp.op = "create_run"
    /\ lastOp.prev # None
    /\ lastOp.prev[1].status = "completed"
    /\ lastOp.prev[1].steps # <<>>
    /\ lastOp.prev[1].graph_data.present
    /\ run_store[lastOp.run_id].steps = <<>>
    /\ \E o \in DOMAIN run_store : o # lastOp.run_id /\ run_store[o].steps # <<>>

\* s is an initial segment of t.
IsPrefix(s, t) == Len(s) <= Len(t) /\ SubSeq(t, 1, Len(s)) = s

\* The step entry carries every required field of a StepLog.
CompleteStep(s) ==
    /\ s.step_id # "" /\ s.step_type # "" /\ s.message # Msg("", "")
    /\ s.status \in {"in_progress", "done", "pending"}
    /\ s.timestamp # ""

\* C11: two successive polls of the same run return step lists of which the
\* earlier is a prefix of the later (nothing removed, reordered or altered),
\* and every entry a poll returns is a complete step.  A poll changes
\* nothing, so every pair of successive polls of a run is adjacent in some
\* behaviour.
C11_PollsFormPrefixChain ==
    [][/\ lastPoll' # lastPoll => \A i \in 1..Len(lastPoll'.steps) :
                                      CompleteStep(lastPoll'.steps[i])
       /\ lastPoll.code = 200 /\ lastPoll'.code = 200
          /\ lastPoll'.run_id = lastPoll.run_id
          => IsPrefix(lastPoll.steps, lastPoll'.steps)]_vars

\* A poll returned a non-empty step list while the execution was still
\* appending to it.
C11_Witness ==
    /\ lastPoll.code = 200
    /\ Len(lastPoll.steps) >= 2
    /\ RunActive(lastPoll.run_id)
    /\ Len(lastPoll.steps) < Len(StepsOf(lastPoll.run_id))

\* C12: a registry write for run a (add_run_step, update_run_status or
\* set_run_graph), interleaved in any way with the writes for another run b,
\* leaves b's record as it was: status, step list and graph.
C12_RunsDoNotInterfere ==
    [][lastOp'.op \in {"add_run_step", "update_run_status", "set_run_graph"}
       => \A b \in DOMAIN run_store \ {lastOp'.run_id} :
             /\ b \in DOMAIN run_store'
             /\ run_store'[b].status = run_store[b].status
             /\ run_store'[b].steps = run_store[b].steps
             /\ run_store'[b].graph_data = run_store[b].graph_data]_vars

\* A step was appended for one run while another run, with a different log,
\* a graph and another status, is in the registry.
C12_Witness ==
    \E b \in DOMAIN run_store :
        /\ lastOp.op = "add_run_step" /\ lastOp.run_id # b
        /\ lastOp.prev # None
        /\ Len(StepsOf(lastOp.run_id)) = Len(lastOp.prev[1].steps) + 1
        /\ StepsOf(b) # StepsOf(lastOp.run_id)
        /\ run_store[b].graph_data.present
        /\ ~run_store[lastOp.run_id].graph_data.present
        /\ run_store[b].status # run_store[lastOp.run_id].status

\* The professor list and the links of the latest build_graph_links call.
Profs == unit.professor_nodes
Links == unit.links
Built == unit.op = "build_graph_links"

\* The ids of the members of the group of institution inst.
MemberIds(inst) ==
    {Profs[i].id : i \in {j \in 1..Len(Profs) : Profs[j].institution = Some(inst)}}

\* The institutions that have a group.
GroupInsts == {inst \in Institutions : MemberIds(inst) # {}}

\* The links with the given label and target.
LinksTo(label, target) ==
    {k \in 1..Len(Links) : Links[k].label = label /\ Links[k].target = target}

\* The leads of the group of inst: its members the viewer is linked to.
LeadIds(inst) ==
    {m \in MemberIds(inst) : LinksTo("interested_in", m) # {}}

DistinctIds ==
    \A i \in 1..Len(Profs), j \in 1..Len(Profs) : i # j => Profs[i].id # Profs[j].id

LinksPerGroup ==
    /\ \A inst \in GroupInsts :
          /\ Cardinality(LeadIds(inst)) = 1
          /\ \A lead \in LeadIds(inst) :
                /\ Cardinality(LinksTo("interested_in", lead)) = 1
                /\ \A k \in LinksTo("interested_in", lead) :
                      Links[k].source = UserNodeId
                /\ \A m \in MemberIds(inst) \ {lead} :
                      /\ Cardinality(LinksTo("supervises", m)) = 1
                      /\ \A k \in LinksTo("supervises", m) :
                            Links[k].source = lead
                /\ MemberIds(inst) = {lead} =>
                      /\ LinksTo("supervises", lead) = {}
                      /\ \A k \in 1..Len(Links) : Links[k].source # lead
    /\ \A k \in 1..Len(Links) : Links[k].source # Links[k].target

Outranks(p, q) ==
    /\ p.h_index # None
    /\ q.h_index = None \/ p.h_index[1] > q.h_index[1]

\* The positions in the list of the members of the group of inst.
MemberPos(inst) == {j \in 1..Len(Profs) : Profs[j].institution = Some(inst)}

\* The member no member outranks and which outranks every member listed
\* before it.
ElectedPos(inst) ==
    {i \in MemberPos(inst) :
        /\ \A j \in MemberPos(inst) : ~Outranks(Profs[j], Profs[i])
        /\ \A j \in MemberPos(inst) : j < i => Outranks(Profs[i], Profs[j])}

PastSearch(r) == orch[r].raisedAt \notin {"filters", "search"}

\* C14: a run started with max_nodes = 0, once it has ended, has a stored
\* graph whose only node is the viewer node and which has no link.
C14_MaxNodesZeroViewerOnlyGraph ==
    \A r \in RunIds :
        /\ orch[r].pc = "done" /\ orch[r].max_nodes = 0 /\ PastSearch(r)
        => /\ run_store[r].graph_data.present
           /\ run_store[r].graph_data.nodes = <<create_user_node>>
           /\ run_store[r].graph_data.links = <<>>

\* C15: the professor list extract_professors returns has one entry per
\* deduplicated author id whose lookup succeeded, in order, and when a
\* lookup was absent no stage of the run raises.
C15_AbsentLookupSkipped ==
    unit.op = "extract_professors"
    => LET ok == SelectSeq(unit.author_ids, LAMBDA a : a \in unit.found) IN
       /\ Len(unit.professors) = Len(ok)
       /\ \A i \in 1..Len(ok) : unit.professors[i].id = ok[i]
       /\ (\E a \in Range(unit.author_ids) : a \notin unit.found)
             => orch[unit.run_id].raisedAt = "none"

\* The request of the latest client call failed in transport or with an
\* error status.
CallFailed ==
    \/ unit.call # "search_papers_by_topics" /\ unit.resp.exc \in TransportErrors
    \/ /\ unit.call = "search_papers_by_topics"
       /\ \/ unit.resp.exc \in TransportErrors
          \/ /\ unit.topics # <<>>
             /\ \A i \in 1..Len(unit.cresps) :
                   unit.cresps[i].exc \in TransportErrors

\* C16: no client operation raises to its caller, whichever of its requests
\* fail, and an operation whose request failed returns its empty result:
\* None for search_concepts and get_author, empty 'results' and 'meta' for
\* the searches of works.
C16_CatalogFailuresAbsorbed ==
    unit.op \in {"search_concepts", "search_works_by_concepts",
                 "search_papers_by_topics", "get_author", "get_author_works"}
    => /\ unit.result.raised = "none"
       /\ CallFailed => /\ unit.result.value = None
                        /\ unit.result.results = <<>>
                        /\ unit.result.meta = <<>>

\* A search by two topics whose first concept lookup timed out and whose
\* works request then lost its connection.
C16_Witness ==
    /\ unit.op = "search_papers_by_topics"
    /\ Len(unit.topics) = 2
    /\ unit.cresps[1].exc = "Timeout"
    /\ unit.cresps[2].exc = "none" /\ unit.cresps[2].results # <<>>
    /\ unit.resp.exc = "ConnectionError"
    /\ unit.result = NoResult

\* C17: the record of a run exists, with status 'running' and no steps,
\* when its trigger has returned and before its background task takes a
\* step, and every poll of a triggered run finds it, with status 'running'
\* or 'completed'.
C17_TriggeredRunIsFound ==
    [][/\ \A r \in RunIds :
             /\ task[r].pc = "none" /\ task'[r].pc # "none"
                => /\ r \in DOMAIN run_store'
                   /\ run_store'[r].status = "running"
                   /\ run_store'[r].steps = <<>>
             /\ task[r].pc # "none" => r \in DOMAIN run_store
       /\ lastPoll' # lastPoll /\ lastPoll'.run_id \in DOMAIN run_store
          => /\ lastPoll'.code = 200
             /\ lastPoll'.status \in {"running", "completed"}]_vars

\* A poll right after the trigger, before the background task has run.
C17_Witness ==
    /\ lastPoll.code = 200 /\ lastPoll.status = "running"
    /\ lastPoll.steps = <<>>
    /\ task[lastPoll.run_id].pc = "loop"
    /\ orch[lastPoll.run_id].pc = "idle"

(***************************************************************************)
(* The graph a run stores.                                                 *)
(***************************************************************************)
\* The runs for which graph construction has stored a graph.
Stored == {r \in DOMAIN run_store : run_store[r].graph_data.present}

\* The professors extraction handed to the run whose graph is stored.
Extracted == unit.professors

\* The institutions of the extracted professors and the size of each group.
ExtractedInsts ==
    {Extracted[i].institution[1] :
        i \in {j \in 1..Len(Extracted) : Extracted[j].institution # None}}

GroupSize(inst) ==
    Cardinality({i \in 1..Len(Extracted) : Extracted[i].institution = Some(inst)})

RECURSIVE SumOver(_, _)
SumOver(S, f) ==
    IF S = {} THEN 0
    ELSE LET x == CHOOSE y \in S : TRUE IN f[x] + SumOver(S \ {x}, f)

C21_WitnessNoInstitution ==
    \E r \in Stored :
        /\ Completed(r)
        /\ \E i \in 1..Len(Extracted) : Extracted[i].institution = None
        /\ Len(run_store[r].graph_data.links) = 1

\* The ids of the nodes of graph g, and of its professor nodes.
NodeIds(g) == {g.nodes[i].id : i \in 1..Len(g.nodes)}

ProfessorIds(g) == NodeIds(g) \ {UserNodeId}

C28_NoWriteAfterCompleted ==
    [][\A r \in DOMAIN run_store :
           run_store[r].status = "completed" => run_store'[r] = run_store[r]]_vars

\* The Orchestrator has gone on after completing a run in which no stage
\* raised: the save that follows update_run_status has been made.
C28_Witness ==
    \E r \in DOMAIN run_store :
        /\ Completed(r)
        /\ orch[r].raisedAt = "none"
        /\ orch[r].pc = "done"
        /\ orch[r].statusSets = 1
        /\ orch[r].saveOutcome # "none"

\* The stages in the order run() executes them, by the step_id they log
\* under; an error entry belongs to no stage.
StageRank(name) ==
    CASE name \in {"filters", "filters-1"} -> 1
      [] name \in {"search", "search-1"} -> 2
      [] name \in {"extraction", "extraction-1"} -> 3
      [] name \in {"relationships", "relationships-1"} -> 4
      [] name \in {"graph", "graph-1"} -> 5
      [] OTHER -> 0

\* C29: after a stage of a run has raised, the log of the run holds no entry
\* of a later stage, and if the stage comes before graph construction no
\* graph is stored.
C29_NoStageAfterFailure ==
    \A r \in DOMAIN run_store :
        StageRank(orch[r].raisedAt) > 0
            => /\ \A i \in 1..Len(StepsOf(r)) :
                      StageRank(StepsOf(r)[i].step_id) <= StageRank(orch[r].raisedAt)
               /\ StageRank(orch[r].raisedAt) < 5
                      => ~run_store[r].graph_data.present

\* A run that failed in its search stage and has finished.
C29_Witness ==
    \E r \in DOMAIN run_store :
        /\ orch[r].raisedAt = "search"
        /\ orch[r].pc = "done"
        /\ \E i \in 1..Len(StepsOf(r)) : StepsOf(r)[i].step_id = "search-1"

\* The status of the entries logged under extraction-1 for run r, in order.
ExtractionStatuses(r) ==
    LET es == SelectSeq(StepsOf(r), LAMBDA s : s.step_id = "extraction-1")
    IN  [i \in 1..Len(es) |-> es[i].status]

\* C25: a run that has entered its extraction stage has logged under
\* extraction-1 an 'in_progress' entry first, then a second 'in_progress'
\* entry once the authors are fetched, then a 'done' entry.
C25_ExtractionStepOrder ==
    \A r \in RunIds :
        orch[r].pc = "done" /\ PastSearch(r)
            => /\ ExtractionStatuses(r) # <<>>
               /\ IsPrefix(ExtractionStatuses(r), <<"in_progress", "in_progress", "done">>)

\* No element occurs twice in sequence s.
NoRepeat(s) == \A i, j \in 1..Len(s) : s[i] = s[j] => i = j

\* The ids among the first two authorships of the works extraction scans,
\* repetitions kept.
ScannedIds ==
    LET scanned == PySliceTo(unit.papers, unit.max_nodes)
    IN  Flatten([i \in 1..Len(scanned) |-> PySliceTo(scanned[i].authorships, 2)])

\* C22: one call of extract_professors looks an author id up at most once
\* with get_author and at most once with get_author_works, however often
\* the id occurs in the scanned works.
C22_OneLookupPerAuthor ==
    unit.op = "extract_professors"
        => /\ NoRepeat(unit.get_author)
           /\ NoRepeat(unit.get_author_works)

\* An id that occurs in two scanned works and twice in one of them has
\* been looked up.
C22_Witness ==
    /\ unit.op = "extract_professors"
    /\ unit.max_nodes = 2
    /\ unit.papers = <<Work4, Work2>>
    /\ Cardinality({i \in 1..Len(ScannedIds) : ScannedIds[i] = "A1"}) = 3
    /\ unit.get_author = <<"A1", "A2">>
    /\ unit.get_author_works = <<"A1", "A2">>

\* C23: extract_author_ids_from_papers reads the leading max_nodes works
\* only, none when max_nodes <= 0, and the first 2 authorships of each: it
\* returns the ids found there in order of first occurrence, at most
\* 2 * max_nodes of them.
C23_LeadingWorksOnly ==
    unit.op = "extract_author_ids_from_papers"
        => LET n == Max(unit.max_nodes, 0)
               leading == SubSeq(unit.papers, 1, Min(n, Len(unit.papers)))
               ids == Flatten([i \in 1..Len(leading) |->
                                  SubSeq(leading[i].authorships, 1,
                                         Min(2, Len(leading[i].authorships)))])
           IN  /\ \A a \in Range(unit.author_ids) : a \in Range(ids)
               /\ \A a \in Range(ids) : a \in Range(unit.author_ids)
               /\ NoRepeat(unit.author_ids)
               /\ \A i, j \in 1..Len(unit.author_ids) :
                      i < j => \E k \in 1..Len(ids) :
                                  /\ ids[k] = unit.author_ids[i]
                                  /\ \A l \in 1..k : ids[l] # unit.author_ids[j]
               /\ Len(unit.author_ids) <= 2 * n

\* No topic of the filter of run r resolves to a concept id: the filter has
\* no topics, or every concept search fails or finds nothing.
NoConceptFor(r) ==
    \A i \in 1..Len(orch[r].filters[1].topics) :
        unit.cresps[i].exc # "none" \/ unit.cresps[i].results = <<>>

\* The entries logged under search-1 for run r, in order.
SearchEntries(r) == SelectSeq(StepsOf(r), LAMBDA s : s.step_id = "search-1")

\* C24: when no topic of the filter resolves to a concept id, the search
\* stage issues no works query, does not raise, leaves an empty works list
\* in the context and logs under search-1 an 'in_progress' and then a 'done'
\* entry, each with an empty papers list.
C24_NoConceptNoQuery ==
    \A r \in DOMAIN run_store :
        unit.op = "search_papers" /\ unit.run_id = r /\ NoConceptFor(r)
            => LET es == SearchEntries(r) IN
               /\ unit.works_queries = 0
               /\ orch[r].raisedAt # "search"
               /\ orch[r].papers_data = Some(<<>>)
               /\ Len(es) \in {1, 2}
               /\ es[1].status = "in_progress" /\ es[1].papers = Some(<<>>)
               /\ orch[r].pc # "search_sleep"
                     => /\ Len(es) = 2
                        /\ es[2].status = "done" /\ es[2].papers = Some(<<>>)

\* The search stage has ended for a filter whose topics did not resolve,
\* while a works query would have returned works.
C24_Witness ==
    \E r \in DOMAIN run_store :
        /\ unit.op = "search_papers" /\ unit.run_id = r
        /\ orch[r].filters[1].topics # <<>> /\ NoConceptFor(r)
        /\ unit.wresp.results # <<>>
        /\ Len(SearchEntries(r)) = 2
        /\ orch[r].pc = "extraction"

\* The search stage has ended for a filter without topics.
C24_WitnessNoTopics ==
    \E r \in DOMAIN run_store :
        /\ unit.op = "search_papers" /\ unit.run_id = r
        /\ orch[r].filters[1].topics = <<>>
        /\ Len(SearchEntries(r)) = 2

C27_GetRunReturnsSnapshot ==
    unit.op = "get_run" /\ unit.returned # None
        => /\ Held[1].status = unit.returned[1].status
           /\ Held[1].steps = unit.returned[1].steps
           /\ Held[1].graph_data = unit.returned[1].graph_data

====
